---- MODULE Spec2Model ----
(***************************************************************************)
(* Model of the agentic-newsroom orchestration: the LangGraph state graphs *)
(* of the research assistant (turn-bounded loop), the reporter (two-pass   *)
(* review/revise) and the newsroom workflow that sequences the six agents. *)
(*                                                                         *)
(* A LangGraph state is a dictionary whose keys may be absent; it is       *)
(* modelled as a function whose DOMAIN is the set of keys present.  A node *)
(* returns a partial update which the graph merges into the state: keys    *)
(* annotated with operator.add are concatenated, the others overwritten,   *)
(* and keys that the state schema does not declare are dropped.            *)
(***************************************************************************)
EXTENDS Integers, Sequences, FiniteSets, TLC

VARIABLES
    stage,      \* position of the newsroom workflow graph (node about to run)
    newsroom,   \* NewsroomState of the workflow run
    rpc,        \* position of the research assistant graph
    research,   \* ResearchState of the research assistant run
    wpc,        \* position of the reporter graph
    reporter,   \* ReporterState of the reporter run
    artifacts,  \* files under artifacts/: <<slug, name>> -> content
    log,        \* node names in execution order (the logger.info entry lines)
    answers,    \* is_complete answers of the evaluations, in turn order
    started,    \* workflow nodes in the order in which they started
    extracted,  \* extracted_data of the extract_analyze that just returned
    prompted,   \* the context put into the prompt of the last query generation
    revisions,  \* calls of the revision model made by the reporter so far
    passes,     \* what each model call of the reporter was given and gave back
    console,    \* what main() has printed, in order
    exit_status \* "running", or the exit status of the ended process

vars == <<stage, newsroom, rpc, research, wpc, reporter, artifacts, log,
          answers, started, extracted, prompted, revisions, passes, console,
          exit_status>>

----------------------------------------------------------------------------
(* Bounds of the model *)

MaxBudget == 3
MaxEvidence == 3

(* Program constants *)

DEFAULT_MAX_TURNS == 5
ContextWindow == 5

----------------------------------------------------------------------------
(* Generic dictionary helpers *)

EmptyDict == [k \in {} |-> TRUE]

Has(state, k) == k \in DOMAIN state

Get(state, k, default) == IF k \in DOMAIN state THEN state[k] ELSE default

\* Python truthiness of state.get(k) for a boolean-valued key: None is falsy.
Truthy(state, k) == (k \in DOMAIN state) /\ (state[k] = TRUE)

----------------------------------------------------------------------------
(* Value domains: what the model, the search tool and the CLI may supply *)

Budgets == {0 - 1} \cup (0 .. MaxBudget)

Briefs ==
    { [slug |-> "socotra", article_type |-> "short",
       key_questions |-> <<"k1", "k2", "k3">>],
      [slug |-> "vents", article_type |-> "long",
       key_questions |-> <<"k1", "k2">>] }

\* Slugs that may be given on the command line.
Slugs == {b.slug : b \in Briefs}

SEP == "\n\n"

Sources == {"u1", "u2"}

\* SearchResult values the extraction model may return.  content is a
\* sequence of text fragments so that concatenation is observable.
Items ==
    { [source |-> "u1", content |-> <<"a">>, relevance |-> "r1"],
      [source |-> "u1", content |-> <<"b">>, relevance |-> "r2"],
      [source |-> "u2", content |-> <<"a">>, relevance |-> "r2"] }

RECURSIVE SeqsUpTo(_, _)
SeqsUpTo(S, n) ==
    IF n = 0 THEN {<<>>}
    ELSE LET shorter == SeqsUpTo(S, n - 1)
         IN  shorter \cup {Append(s, x) : s \in shorter, x \in S}

\* Query lists the query model may return.
QueryBatches == {<<"q1">>, <<"q1", "q2">>}

\* What the search tool finds for a query when the search succeeds.
SearchIndex == [q \in {"q1", "q2"} |-> IF q = "q1" THEN "u1" ELSE "u2"]

\* URL lists the curation model may return.
UrlSelections == {<<"u1">>, <<"u2", "u1">>}

\* Item lists one extraction may return.
NewItemBatches == SeqsUpTo(Items, 2)

Summaries == {"thin"}

----------------------------------------------------------------------------
(* LangGraph state merge *)

\* Keys declared by ResearchState; search_results and context carry the
\* operator.add reducer.
ResearchStateKeys ==
    {"story_brief", "context", "queries", "raw_search_results",
     "urls_to_extract", "search_results", "research_package",
     "current_turn", "max_turns", "is_complete"}

\* A state schema in which the curated URLs pile up over the turns.
ResearchAddKeys_accumulates_urls ==
    {"context", "search_results", "urls_to_extract"}

\* A state schema in which search_results has no reducer.
ResearchAddKeys_context_only == {"context"}

ResearchAddKeys == {"context", "search_results"}

\* Merge of a node's partial update into the graph state.
ApplyUpdate(schema, addKeys, state, update) ==
    LET keys == (DOMAIN state) \cup ((DOMAIN update) \cap schema)
    IN  [k \in keys |->
            IF k \in DOMAIN update
            THEN IF k \in addKeys
                 THEN Get(state, k, <<>>) \o update[k]
                 ELSE update[k]
            ELSE state[k]]

\* A save that writes every file into one folder, whatever the slug.
Saved_in_one_folder(files, slug, name, content) ==
    [k \in DOMAIN files \cup {<<"", name>>} |->
        IF k = <<"", name>> THEN content ELSE files[k]]

\* A file written under artifacts/<slug>/: NewsroomModel.save and the
\* reporter's intermediate files.
Saved(files, slug, name, content) ==
    [k \in DOMAIN files \cup {<<slug, name>>} |->
        IF k = <<slug, name>> THEN content ELSE files[k]]

\* NewsroomModel.load finds the file only if a save for the slug wrote it.
FileExists(files, slug, name) == <<slug, name>> \in DOMAIN files

load(files, slug, name) == files[<<slug, name>>]

\* One print call of a main(): the fixed text and the value formatted in.
Line(text, arg) == [text |-> text, arg |-> arg]

\* The lines printed when cond holds.
Part(cond, lines) == IF cond THEN lines ELSE <<>>

----------------------------------------------------------------------------
(* Research assistant: node functions *)

\* A query generation that returns the turn counter as it found it.
generate_queries_node_keeps_turn(state, res) ==
    [queries |-> res,
     current_turn |-> Get(state, "current_turn", 0)]

\* generate_queries_node: the update returned for model output res.
generate_queries_node(state, res) ==
    [queries |-> res,
     current_turn |-> Get(state, "current_turn", 0) + 1]

\* The rolling context handed to the query model: context_msgs[-5:].
\* A query generation that puts the whole history into its prompt.
context_window_whole_history(state) == Get(state, "context", <<>>)

context_window(state) ==
    LET msgs == Get(state, "context", <<>>)
        n == Len(msgs)
    IN  IF n <= ContextWindow THEN msgs
        ELSE SubSeq(msgs, n - ContextWindow + 1, n)

\* A search that gives up everything it gathered when one query fails.
perform_search_all_or_nothing(queries) ==
    {<<>>, [i \in DOMAIN queries |-> [url |-> SearchIndex[queries[i]]]]}

\* perform_search: every query either fails (skipped) or yields some
\* results; the results are collected in query order.
RECURSIVE perform_search(_)
perform_search(queries) ==
    IF queries = <<>> THEN {<<>>}
    ELSE LET one == {<<>>, <<[url |-> SearchIndex[Head(queries)]]>>}
         IN  {h \o t : h \in one, t \in perform_search(Tail(queries))}

\* perform_extract: every URL either fails (skipped) or yields its page;
\* the pages are collected in URL order.
RECURSIVE perform_extract(_)
perform_extract(urls) ==
    IF urls = <<>> THEN {<<>>}
    ELSE LET one == {<<>>, <<[url |-> Head(urls), raw_content |-> "page"]>>}
         IN  {h \o t : h \in one, t \in perform_extract(Tail(urls))}

\* search_node: the update returned for search outcome raw.
search_node(state, raw) == [raw_search_results |-> raw]

\* curate_node: the update returned for model selection urls.
curate_node(state, urls) == [urls_to_extract |-> urls]

\* extract_analyze_node: the update returned for model output analysis.
\* An evaluation that keeps a completion flag that is already set.
extract_analyze_node_stale_flag(state, analysis) ==
    [search_results |-> analysis.new_items,
     is_complete |-> Get(state, "is_complete", analysis.is_complete),
     context |-> <<[turn |-> state["current_turn"],
                    findings |-> analysis.summary_of_findings]>>,
     is_research_complete |-> analysis.is_complete]

extract_analyze_node(state, analysis) ==
    [search_results |-> analysis.new_items,
     is_complete |-> analysis.is_complete,
     context |-> <<[turn |-> state["current_turn"],
                    findings |-> analysis.summary_of_findings]>>,
     is_research_complete |-> analysis.is_complete]

\* A loop decision that reads the answer only from is_research_complete, a
\* key the state schema does not declare.
check_loop_reads_dropped_key(state) ==
    IF Truthy(state, "is_research_complete")
       \/ Get(state, "current_turn", 0) >= Get(state, "max_turns", DEFAULT_MAX_TURNS)
    THEN "finalize_research"
    ELSE "generate_queries"

\* A loop decision that looks at the budget only.
check_loop_ignores_answer(state) ==
    IF Get(state, "current_turn", 0) >= Get(state, "max_turns", DEFAULT_MAX_TURNS)
    THEN "finalize_research"
    ELSE "generate_queries"

\* A loop decision whose budget test is off by one.
check_loop_off_by_one(state) ==
    IF Truthy(state, "is_complete") \/ Truthy(state, "is_research_complete")
       \/ Get(state, "current_turn", 0) > Get(state, "max_turns", DEFAULT_MAX_TURNS)
    THEN "finalize_research"
    ELSE "generate_queries"

\* check_loop: the conditional edge after extract_analyze.
check_loop(state) ==
    LET current_turn == Get(state, "current_turn", 0)
        max_turns == Get(state, "max_turns", DEFAULT_MAX_TURNS)
        is_complete == Truthy(state, "is_complete")
                       \/ Truthy(state, "is_research_complete")
    IN  IF is_complete \/ current_turn >= max_turns
        THEN "finalize_research"
        ELSE "generate_queries"

\* A merge loop that keeps every accumulated item as an entry of its own.
merge_item_keeps_duplicates(merged, r) ==
    Append(merged, [source |-> r.source, content |-> r.content,
                    relevance |-> r.relevance])

\* A merge loop that puts the later content in front of the earlier one.
merge_item_prepends(merged, r) ==
    IF \E i \in 1 .. Len(merged) : merged[i].source = r.source
    THEN [i \in 1 .. Len(merged) |->
            IF merged[i].source = r.source
            THEN [merged[i] EXCEPT !.content = r.content \o <<SEP>> \o @]
            ELSE merged[i]]
    ELSE Append(merged, [source |-> r.source, content |-> r.content,
                         relevance |-> r.relevance])

\* A merge loop that ends the content of every new entry with the separator.
merge_item_trailing_separator(merged, r) ==
    IF \E i \in 1 .. Len(merged) : merged[i].source = r.source
    THEN [i \in 1 .. Len(merged) |->
            IF merged[i].source = r.source
            THEN [merged[i] EXCEPT !.content = @ \o r.content \o <<SEP>>]
            ELSE merged[i]]
    ELSE Append(merged, [source |-> r.source,
                         content |-> r.content \o <<SEP>>,
                         relevance |-> r.relevance])

\* A merge loop that puts a source it sees for the first time in front.
merge_item_inserts_in_front(merged, r) ==
    IF \E i \in 1 .. Len(merged) : merged[i].source = r.source
    THEN [i \in 1 .. Len(merged) |->
            IF merged[i].source = r.source
            THEN [merged[i] EXCEPT !.content = @ \o <<SEP>> \o r.content]
            ELSE merged[i]]
    ELSE <<[source |-> r.source, content |-> r.content,
            relevance |-> r.relevance]>> \o merged

\* One iteration of the merge loop of finalize_research_node: merged is the
\* insertion-ordered merged_map, r the next accumulated item.
merge_item(merged, r) ==
    IF \E i \in 1 .. Len(merged) : merged[i].source = r.source
    THEN [i \in 1 .. Len(merged) |->
            IF merged[i].source = r.source
            THEN [merged[i] EXCEPT !.content = @ \o <<SEP>> \o r.content]
            ELSE merged[i]]
    ELSE Append(merged, [source |-> r.source, content |-> r.content,
                         relevance |-> r.relevance])

RECURSIVE merge_from(_, _)
merge_from(merged, raw) ==
    IF raw = <<>> THEN merged
    ELSE merge_from(merge_item(merged, Head(raw)), Tail(raw))

\* finalize_research_node: the ResearchPackage built from the state.
finalize_package(state) ==
    [results |-> merge_from(<<>>, Get(state, "search_results", <<>>))]

\* What the extraction model may answer in a state: the evidence cap of the
\* model bounds the number of new items.
Analyses(state) ==
    { [new_items |-> items, is_complete |-> c, summary_of_findings |-> s] :
        items \in { x \in NewItemBatches :
                      Len(Get(state, "search_results", <<>>)) + Len(x)
                          <= MaxEvidence },
        c \in BOOLEAN, s \in Summaries }

\* A graph whose entry point is finalize: the loop is left before a turn.
research_edge_finalizes_first(node) ==
    CASE node = "START" -> "finalize_research"
      [] node = "generate_queries" -> "search_web"
      [] node = "search_web" -> "curate_urls"
      [] node = "curate_urls" -> "extract_analyze"
      [] node = "finalize_research" -> "END"

\* A graph wired to curate before it searches.
research_edge_curates_first(node) ==
    CASE node = "START" -> "generate_queries"
      [] node = "generate_queries" -> "curate_urls"
      [] node = "curate_urls" -> "search_web"
      [] node = "search_web" -> "extract_analyze"
      [] node = "finalize_research" -> "END"

\* The successor of each node with an unconditional edge in
\* build_research_assistant_graph.
research_edge(node) ==
    CASE node = "START" -> "generate_queries"
      [] node = "generate_queries" -> "search_web"
      [] node = "search_web" -> "curate_urls"
      [] node = "curate_urls" -> "extract_analyze"
      [] node = "finalize_research" -> "END"

----------------------------------------------------------------------------
(* Research assistant: graph steps *)

\* A wrapper that swallows what its graph raises.
Raised_swallowed(s) == s

\* An exception raised inside a node ends the graph run; inside the
\* workflow it ends the workflow run as well.
Raised(s) == IF s = "standalone" THEN s ELSE "FAILED"

\* No main() catches what a graph raises: the process ends with the
\* traceback and exit status 1.
ExitOnRaise(pc) ==
    exit_status' = IF pc = "FAILED" THEN "1" ELSE exit_status

ResearchFrame ==
    UNCHANGED <<newsroom, wpc, reporter, started, console, revisions, passes>>

\* A node that has written what it prepared before its call returned.
raised_in_node_keeps_prepared(state, prepared) ==
    ApplyUpdate(ResearchStateKeys, ResearchAddKeys, state, prepared)

\* The state left by a node whose model call raised: what the node had
\* prepared in its locals is lost with the frame, the state is the one the
\* node was given.
raised_in_node(state, prepared) == state

ResearchUpdate(update) ==
    research' = ApplyUpdate(ResearchStateKeys, ResearchAddKeys, research, update)

GenerateQueries ==
    /\ rpc = "generate_queries"
    /\ log' = Append(log, "generate_queries")
    /\ \/ \E res \in QueryBatches :
            /\ ResearchUpdate(generate_queries_node(research, res))
            /\ rpc' = research_edge("generate_queries")
            /\ stage' = stage
       \/ /\ rpc' = "FAILED"
          /\ stage' = Raised(stage)
          /\ research' = raised_in_node(research,
                 [current_turn |-> Get(research, "current_turn", 0) + 1])
    /\ ExitOnRaise(rpc')
    /\ extracted' = <<>>
    /\ prompted' = context_window(research)
    /\ UNCHANGED <<artifacts, answers>>
    /\ ResearchFrame

SearchWeb ==
    /\ rpc = "search_web"
    /\ log' = Append(log, "search_web")
    /\ \E raw \in perform_search(Get(research, "queries", <<>>)) :
            ResearchUpdate(search_node(research, raw))
    /\ rpc' = research_edge("search_web")
    /\ UNCHANGED <<stage, artifacts, answers, extracted, prompted, exit_status>>
    /\ ResearchFrame

CurateUrls ==
    /\ rpc = "curate_urls"
    /\ log' = Append(log, "curate_urls")
    /\ IF Get(research, "raw_search_results", <<>>) = <<>>
       THEN /\ ResearchUpdate(curate_node(research, <<>>))
            /\ rpc' = research_edge("curate_urls")
            /\ stage' = stage
       ELSE \/ \E urls \in UrlSelections :
                 /\ ResearchUpdate(curate_node(research, urls))
                 /\ rpc' = research_edge("curate_urls")
                 /\ stage' = stage
            \/ /\ rpc' = "FAILED"
               /\ stage' = Raised(stage)
               /\ research' = raised_in_node(research, EmptyDict)
    /\ ExitOnRaise(rpc')
    /\ UNCHANGED <<artifacts, answers, extracted, prompted>>
    /\ ResearchFrame

ExtractAnalyze ==
    /\ rpc = "extract_analyze"
    /\ log' = Append(log, "extract_analyze")
    /\ extracted' \in perform_extract(Get(research, "urls_to_extract", <<>>))
    /\ UNCHANGED prompted
    /\ \/ \E analysis \in Analyses(research) :
            /\ ResearchUpdate(extract_analyze_node(research, analysis))
            /\ rpc' = check_loop(research')
            /\ answers' = Append(answers, analysis.is_complete)
            /\ stage' = stage
       \/ /\ rpc' = "FAILED"
          /\ stage' = Raised(stage)
          /\ research' = raised_in_node(research, EmptyDict)
          /\ UNCHANGED answers
    /\ ExitOnRaise(rpc')
    /\ UNCHANGED artifacts
    /\ ResearchFrame

FinalizeResearch ==
    /\ rpc = "finalize_research"
    /\ log' = Append(log, "finalize_research")
    /\ \E package \in {finalize_package(research)} :
           /\ artifacts' = Saved(artifacts, research["story_brief"].slug,
                                  "research_package", package)
           /\ ResearchUpdate([research_package |-> package])
    /\ rpc' = research_edge("finalize_research")
    /\ extracted' = <<>>
    /\ UNCHANGED prompted
    /\ UNCHANGED <<stage, answers, exit_status>>
    /\ ResearchFrame

----------------------------------------------------------------------------
(* Reporter: value domains *)

\* A draft body is its markdown lines; a line of this set is a ## section
\* heading.
HeadingLines == {"## Discovery", "## Outlook"}

\* DraftPackage values the drafting model may return.
Drafts ==
    { [full_draft |-> <<"## Discovery", "text-a", "## Outlook", "text-a">>,
       sources |-> <<"u1">>,
       sources_section |-> "one source"],
      [full_draft |-> <<"## Discovery", "text-b", "## Outlook", "text-b">>,
       sources |-> <<"u1", "u2">>,
       sources_section |-> "two sources"] }

\* RevisedDraft values the revision model may return: the schema is a single
\* string, so a body that keeps the sections and one that drops a section
\* both validate.
RevisedDrafts ==
    { [full_draft |-> <<"## Discovery", "text-b", "## Outlook", "text-b">>],
      [full_draft |-> <<"## Discovery", "text-c">>] }

\* FactReview and StyleReview values: the issue list is what the graph reads.
FactReviews == { [issues |-> <<>>], [issues |-> <<"unsupported claim">>] }

StyleReviews == { [issues |-> <<>>], [issues |-> <<"em dash">>] }

\* ResearchPackage values found on disk when the reporter runs on its own.
SavedPackages ==
    { [results |-> <<>>],
      [results |-> <<[source |-> "u1", content |-> <<"a">>,
                      relevance |-> "r1"]>>] }

ReporterStateKeys ==
    {"story_brief", "research_package", "fact_review", "style_review",
     "draft_package"}

----------------------------------------------------------------------------
(* Reporter: node functions *)

\* A revision that rebuilds the package from the model's output alone.
updated_package_drops_sources(draft_package, revised) ==
    [full_draft |-> revised.full_draft,
     sources |-> <<>>,
     sources_section |-> ""]

\* A revision that hands on the draft it was given.
updated_package_discards_revision(draft_package, revised) == draft_package

\* The DraftPackage a revision builds from the current draft and the model's
\* RevisedDraft: only full_draft is taken from the model.
updated_package(draft_package, revised) ==
    [full_draft |-> revised.full_draft,
     sources |-> draft_package.sources,
     sources_section |-> draft_package.sources_section]

\* A fact revision that never skips.
revise_facts_never_skips(state) == FALSE

\* revise_facts runs the revision model only for a non-empty issue list.
revise_facts_skips(state) == state["fact_review"].issues = <<>>

\* A style revision that calls the revision model whatever the review says.
revise_style_never_skips(state) == FALSE

\* revise_style runs the revision model only for a non-empty issue list.
revise_style_skips(state) == state["style_review"].issues = <<>>

\* A reporter graph that skips the fact pass after the first draft.
reporter_edge_skips_fact_pass(node) ==
    CASE node = "START" -> "write_draft"
      [] node = "write_draft" -> "review_style"
      [] node = "review_facts" -> "revise_facts"
      [] node = "revise_facts" -> "review_style"
      [] node = "review_style" -> "revise_style"
      [] node = "revise_style" -> "finalize_draft"
      [] node = "finalize_draft" -> "END"

\* The successor of each node in build_reporter_graph: add_edge calls.
reporter_edge(node) ==
    CASE node = "START" -> "write_draft"
      [] node = "write_draft" -> "review_facts"
      [] node = "review_facts" -> "revise_facts"
      [] node = "revise_facts" -> "review_style"
      [] node = "review_style" -> "revise_style"
      [] node = "revise_style" -> "finalize_draft"
      [] node = "finalize_draft" -> "END"

----------------------------------------------------------------------------
(* Reporter: graph steps *)

ReporterFrame ==
    UNCHANGED <<newsroom, rpc, research, answers, started, extracted,
                prompted, console>>

ReporterUpdate(update) ==
    reporter' = ApplyUpdate(ReporterStateKeys, {}, reporter, update)

\* One model call of a reporter step: the draft body put into its
\* messages and the body it answered with (<<>> where there is none).
Pass(node, read, wrote) == [node |-> node, read |-> read, wrote |-> wrote]

ReporterRaises(node, read) ==
    /\ wpc' = "FAILED"
    /\ stage' = Raised(stage)
    /\ passes' = Append(passes, Pass(node, read, <<>>))
    /\ UNCHANGED <<reporter, artifacts>>

WriteDraft ==
    /\ wpc = "write_draft"
    /\ log' = Append(log, "write_draft")
    /\ \/ \E draft_package \in Drafts :
            /\ artifacts' = Saved(artifacts, reporter["story_brief"].slug,
                                  "reporter/1_initial_draft.md", draft_package)
            /\ ReporterUpdate([draft_package |-> draft_package])
            /\ passes' = Append(passes, Pass("write_draft", <<>>,
                                             draft_package.full_draft))
            /\ wpc' = reporter_edge("write_draft")
            /\ stage' = stage
       \/ ReporterRaises("write_draft", <<>>)
    /\ ExitOnRaise(wpc')
    /\ UNCHANGED revisions
    /\ ReporterFrame

ReviewFacts ==
    /\ wpc = "review_facts"
    /\ log' = Append(log, "review_facts")
    /\ \/ \E fact_review \in FactReviews :
            /\ artifacts' = Saved(artifacts, reporter["story_brief"].slug,
                                  "reporter/2_fact_review.md", fact_review)
            /\ ReporterUpdate([fact_review |-> fact_review])
            /\ passes' = Append(passes,
                   Pass("review_facts", reporter["draft_package"].full_draft, <<>>))
            /\ wpc' = reporter_edge("review_facts")
            /\ stage' = stage
       \/ ReporterRaises("review_facts", reporter["draft_package"].full_draft)
    /\ ExitOnRaise(wpc')
    /\ UNCHANGED revisions
    /\ ReporterFrame

ReviseFacts ==
    /\ wpc = "revise_facts"
    /\ log' = Append(log, "revise_facts")
    /\ IF revise_facts_skips(reporter)
       THEN /\ ReporterUpdate(EmptyDict)
            /\ wpc' = reporter_edge("revise_facts")
            /\ UNCHANGED <<stage, artifacts, passes>>
       ELSE \/ \E revised \in RevisedDrafts :
                 LET updated == updated_package(reporter["draft_package"], revised)
                 IN  /\ artifacts' =
                           Saved(artifacts, reporter["story_brief"].slug,
                                 "reporter/3_after_fact_revision.md", updated)
                     /\ ReporterUpdate([draft_package |-> updated])
                     /\ passes' = Append(passes,
                            Pass("revise_facts",
                                 reporter["draft_package"].full_draft,
                                 revised.full_draft))
                     /\ wpc' = reporter_edge("revise_facts")
                     /\ stage' = stage
            \/ ReporterRaises("revise_facts", reporter["draft_package"].full_draft)
    /\ ExitOnRaise(wpc')
    /\ revisions' = revisions + (IF revise_facts_skips(reporter) THEN 0 ELSE 1)
    /\ ReporterFrame

ReviewStyle ==
    /\ wpc = "review_style"
    /\ log' = Append(log, "review_style")
    /\ \/ \E style_review \in StyleReviews :
            /\ artifacts' = Saved(artifacts, reporter["story_brief"].slug,
                                  "reporter/4_style_review.md", style_review)
            /\ ReporterUpdate([style_review |-> style_review])
            /\ passes' = Append(passes,
                   Pass("review_style", reporter["draft_package"].full_draft, <<>>))
            /\ wpc' = reporter_edge("review_style")
            /\ stage' = stage
       \/ ReporterRaises("review_style", reporter["draft_package"].full_draft)
    /\ ExitOnRaise(wpc')
    /\ UNCHANGED revisions
    /\ ReporterFrame

ReviseStyle ==
    /\ wpc = "revise_style"
    /\ log' = Append(log, "revise_style")
    /\ IF revise_style_skips(reporter)
       THEN /\ ReporterUpdate(EmptyDict)
            /\ wpc' = reporter_edge("revise_style")
            /\ UNCHANGED <<stage, artifacts, passes>>
       ELSE \/ \E revised \in RevisedDrafts :
                 LET updated == updated_package(reporter["draft_package"], revised)
                 IN  /\ artifacts' =
                           Saved(artifacts, reporter["story_brief"].slug,
                                 "reporter/5_after_style_revision.md", updated)
                     /\ ReporterUpdate([draft_package |-> updated])
                     /\ passes' = Append(passes,
                            Pass("revise_style",
                                 reporter["draft_package"].full_draft,
                                 revised.full_draft))
                     /\ wpc' = reporter_edge("revise_style")
                     /\ stage' = stage
            \/ ReporterRaises("revise_style", reporter["draft_package"].full_draft)
    /\ ExitOnRaise(wpc')
    /\ revisions' = revisions + (IF revise_style_skips(reporter) THEN 0 ELSE 1)
    /\ ReporterFrame

FinalizeDraft ==
    /\ wpc = "finalize_draft"
    /\ log' = Append(log, "finalize_draft")
    /\ artifacts' = Saved(artifacts, reporter["story_brief"].slug,
                          "draft_package", reporter["draft_package"])
    /\ ReporterUpdate([draft_package |-> reporter["draft_package"]])
    /\ wpc' = reporter_edge("finalize_draft")
    /\ UNCHANGED <<stage, exit_status>>
    /\ UNCHANGED <<revisions, passes>>
    /\ ReporterFrame

----------------------------------------------------------------------------
(* The research assistant run on its own: main() of research_assistant.py, *)
(* with the slug and --turns drawn from Slugs and Budgets.                 *)

\* main() up to graph.invoke: a missing story brief is reported and main()
\* returns.
ResearchMain ==
    /\ stage = "standalone"
    /\ rpc = "main"
    /\ \E slug \in Slugs, turns \in Budgets :
          IF FileExists(artifacts, slug, "story_brief")
          THEN /\ research' = [story_brief |-> load(artifacts, slug, "story_brief"),
                               max_turns |-> turns,
                               current_turn |-> 0,
                               context |-> <<>>,
                               search_results |-> <<>>]
               /\ rpc' = research_edge("START")
               /\ console' = Append(console, Line("Researching", slug))
               /\ UNCHANGED exit_status
          ELSE /\ console' = console \o
                     <<Line("Researching", slug),
                       Line("Story Brief not found for slug", slug)>>
               /\ rpc' = "idle"
               /\ exit_status' = "0"
               /\ UNCHANGED research
    /\ UNCHANGED <<stage, newsroom, wpc, reporter, artifacts, log, answers,
                   started, extracted, prompted, revisions, passes>>

\* main() after graph.invoke has returned.
ResearchMainEnds ==
    /\ stage = "standalone"
    /\ rpc = "END"
    /\ exit_status = "running"
    /\ console' = Append(console,
                         IF Has(research, "research_package")
                         THEN Line("Research Complete",
                                   Len(research["research_package"].results))
                         ELSE Line("Research failed to produce a package", 0))
    /\ exit_status' = "0"
    /\ UNCHANGED <<stage, newsroom, rpc, research, wpc, reporter, artifacts,
                   log, answers, started, extracted, prompted, revisions,
                   passes>>

InitResearch ==
    /\ stage = "standalone"
    /\ newsroom = EmptyDict
    /\ rpc = "main"
    /\ research = EmptyDict
    /\ wpc = "idle"
    /\ reporter = EmptyDict
    /\ artifacts \in {EmptyDict}
          \cup {Saved(EmptyDict, brief.slug, "story_brief", brief) :
                  brief \in Briefs}
    /\ log = <<>>
    /\ answers = <<>>
    /\ started = <<>>
    /\ extracted = <<>>
    /\ prompted = <<>>
    /\ revisions = 0
    /\ passes = <<>>
    /\ console = <<>>
    /\ exit_status = "running"

NextResearch ==
    \/ ResearchMain
    \/ GenerateQueries
    \/ SearchWeb
    \/ CurateUrls
    \/ ExtractAnalyze
    \/ FinalizeResearch
    \/ ResearchMainEnds

SpecResearch == InitResearch /\ [][NextResearch]_vars

\* The research loop taken up at the head of a late turn. --turns accepts
\* any budget, so a run can stand at the start of turn n + 1 with n
\* insufficient turns behind it, each of which found nothing worth keeping.
MaxHistory == 7

NodesOfTurn == <<"generate_queries", "search_web", "curate_urls",
                 "extract_analyze">>

TurnsBehind(n, brief) ==
    LET fresh == [story_brief |-> brief,
                  max_turns |-> n + 1,
                  current_turn |-> n,
                  context |-> [i \in 1 .. n |->
                                 [turn |-> i, findings |-> "thin"]],
                  search_results |-> <<>>]
        worked == [queries |-> <<"q1">>,
                   raw_search_results |-> <<>>,
                   urls_to_extract |-> <<>>,
                   is_complete |-> FALSE]
    IN  IF n = 0 THEN fresh ELSE fresh @@ worked

InitContext ==
    \E n \in 0 .. MaxHistory, brief \in Briefs :
       /\ stage = "standalone"
       /\ newsroom = EmptyDict
       /\ rpc = "generate_queries"
       /\ research = TurnsBehind(n, brief)
       /\ wpc = "idle"
       /\ reporter = EmptyDict
       /\ artifacts = Saved(EmptyDict, brief.slug, "story_brief", brief)
       /\ log = [i \in 1 .. 4 * n |-> NodesOfTurn[((i - 1) % 4) + 1]]
       /\ answers = [i \in 1 .. n |-> FALSE]
       /\ started = <<>>
       /\ extracted = <<>>
       /\ prompted = IF n = 0 THEN <<>>
                     ELSE context_window(
                            [context |-> [i \in 1 .. n - 1 |->
                                           [turn |-> i, findings |-> "thin"]]])
       /\ revisions = 0
       /\ passes = <<>>
       /\ console = <<Line("Researching", brief.slug)>>
       /\ exit_status = "running"

NextContext ==
    \/ GenerateQueries
    \/ SearchWeb
    \/ CurateUrls
    \/ ExtractAnalyze
    \/ FinalizeResearch
    \/ ResearchMainEnds

SpecContext == InitContext /\ [][NextContext]_vars

----------------------------------------------------------------------------
(* The reporter run on its own: main() of reporter.py, with the slug drawn *)
(* from Slugs.                                                             *)

\* main() up to graph.invoke: the brief is loaded first, then the research
\* package; the first missing file is reported and main() returns.
ReporterMain ==
    /\ stage = "standalone"
    /\ wpc = "main"
    /\ \E slug \in Slugs :
          IF ~FileExists(artifacts, slug, "story_brief")
          THEN /\ console' = console \o
                     <<Line("Writing draft for", slug),
                       Line("Missing input files: No saved StoryBrief found for slug",
                            slug)>>
               /\ wpc' = "idle"
               /\ exit_status' = "0"
               /\ UNCHANGED reporter
          ELSE IF ~FileExists(artifacts, slug, "research_package")
          THEN /\ console' = console \o
                     <<Line("Writing draft for", slug),
                       Line("Missing input files: No saved ResearchPackage found for slug",
                            slug)>>
               /\ wpc' = "idle"
               /\ exit_status' = "0"
               /\ UNCHANGED reporter
          ELSE /\ reporter' =
                     [story_brief |-> load(artifacts, slug, "story_brief"),
                      research_package |->
                          load(artifacts, slug, "research_package")]
               /\ wpc' = reporter_edge("START")
               /\ console' = Append(console, Line("Writing draft for", slug))
               /\ UNCHANGED exit_status
    /\ UNCHANGED <<stage, newsroom, rpc, research, artifacts, log, answers,
                   started, extracted, prompted, revisions, passes>>

\* main() after graph.invoke has returned.
ReporterMainEnds ==
    /\ stage = "standalone"
    /\ wpc = "END"
    /\ exit_status = "running"
    /\ console' = Append(console,
                         IF Has(reporter, "draft_package")
                         THEN Line("Draft complete", reporter["story_brief"].slug)
                         ELSE Line("Failed to write draft", ""))
    /\ exit_status' = "0"
    /\ UNCHANGED <<stage, newsroom, rpc, research, wpc, reporter, artifacts,
                   log, answers, started, extracted, prompted, revisions,
                   passes>>

InitReporter ==
    /\ stage = "standalone"
    /\ newsroom = EmptyDict
    /\ rpc = "idle"
    /\ research = EmptyDict
    /\ wpc = "main"
    /\ reporter = EmptyDict
    /\ \E brief \in Briefs, package \in SavedPackages :
          artifacts \in
             {EmptyDict,
              Saved(EmptyDict, brief.slug, "story_brief", brief),
              Saved(Saved(EmptyDict, brief.slug, "story_brief", brief),
                    brief.slug, "research_package", package)}
    /\ log = <<>>
    /\ answers = <<>>
    /\ started = <<>>
    /\ extracted = <<>>
    /\ prompted = <<>>
    /\ revisions = 0
    /\ passes = <<>>
    /\ console = <<>>
    /\ exit_status = "running"

NextReporter ==
    \/ ReporterMain
    \/ WriteDraft
    \/ ReviewFacts
    \/ ReviseFacts
    \/ ReviewStyle
    \/ ReviseStyle
    \/ FinalizeDraft
    \/ ReporterMainEnds

SpecReporter == InitReporter /\ [][NextReporter]_vars

----------------------------------------------------------------------------
(* Newsroom workflow: value domains *)

\* FinalArticle values the copy-editing model may return.
FinalArticles ==
    { [title |-> "title-a", article |-> "article-a"],
      [title |-> "title-b", article |-> "article-b"] }

\* PublicationApproval values the approval model may return: approved is
\* required, notes defaults to the empty list.
Approvals ==
    { [approved |-> TRUE, notes |-> <<>>],
      [approved |-> TRUE, notes |-> <<"strong lead">>],
      [approved |-> FALSE, notes |-> <<"missing attribution">>],
      [approved |-> FALSE, notes |-> <<>>] }

\* What the approval model may output before validation: the values above,
\* an output that leaves notes out, and one that leaves approved out.
ApprovalOutputs ==
    Approvals \cup {[approved |-> TRUE], [notes |-> <<"no verdict">>]}

\* A PublicationApproval that refuses a rejection without notes.
PublicationApproval_valid_with_note(output) ==
    /\ Has(output, "approved")
    /\ output.approved \in BOOLEAN
    /\ output.approved \/ Get(output, "notes", <<>>) # <<>>

\* Validation of a model output as PublicationApproval: approved is a
\* required boolean, notes has no constraint.
PublicationApproval_valid(output) ==
    /\ Has(output, "approved")
    /\ output.approved \in BOOLEAN

\* The PublicationApproval built from a valid output: notes defaults to the
\* empty list.
PublicationApproval(output) ==
    [approved |-> output.approved, notes |-> Get(output, "notes", <<>>)]

NewsroomStateKeys ==
    {"article_idea", "story_brief", "research_package", "draft_package",
     "final_article", "hero_image_path", "approval"}

\* A workflow that sends the brief straight to the reporter.
workflow_edge_skips_research(node) ==
    CASE node = "START" -> "assignment_editor"
      [] node = "assignment_editor" -> "reporter"
      [] node = "research_assistant" -> "reporter"
      [] node = "reporter" -> "copy_editor"
      [] node = "copy_editor" -> "graphic_desk"
      [] node = "graphic_desk" -> "editor_in_chief"
      [] node = "editor_in_chief" -> "END"

\* A workflow that plans again once the research has returned.
workflow_edge_replans(node) ==
    CASE node = "START" -> "assignment_editor"
      [] node = "assignment_editor" -> "research_assistant"
      [] node = "research_assistant" -> "assignment_editor"
      [] node = "reporter" -> "copy_editor"
      [] node = "copy_editor" -> "graphic_desk"
      [] node = "graphic_desk" -> "editor_in_chief"
      [] node = "editor_in_chief" -> "END"

\* A workflow that polishes before the draft is written.
workflow_edge_polishes_first(node) ==
    CASE node = "START" -> "assignment_editor"
      [] node = "assignment_editor" -> "research_assistant"
      [] node = "research_assistant" -> "copy_editor"
      [] node = "reporter" -> "graphic_desk"
      [] node = "copy_editor" -> "reporter"
      [] node = "graphic_desk" -> "editor_in_chief"
      [] node = "editor_in_chief" -> "END"

\* A workflow in which polishing hands the article back to drafting.
workflow_edge_redrafts(node) ==
    CASE node = "START" -> "assignment_editor"
      [] node = "assignment_editor" -> "research_assistant"
      [] node = "research_assistant" -> "reporter"
      [] node = "reporter" -> "copy_editor"
      [] node = "copy_editor" -> "reporter"
      [] node = "graphic_desk" -> "editor_in_chief"
      [] node = "editor_in_chief" -> "END"

\* The successor of each node in build_newsroom_workflow: add_edge calls.
workflow_edge(node) ==
    CASE node = "START" -> "assignment_editor"
      [] node = "assignment_editor" -> "research_assistant"
      [] node = "research_assistant" -> "reporter"
      [] node = "reporter" -> "copy_editor"
      [] node = "copy_editor" -> "graphic_desk"
      [] node = "graphic_desk" -> "editor_in_chief"
      [] node = "editor_in_chief" -> "END"

\* A feedback edge from a rejecting approval back to the reporter, as a
\* workflow with the rejection cycle would route.
approval_edge_feedback(state) ==
    IF state["approval"].approved THEN "END" ELSE "reporter"

\* The node that follows editor_in_chief, given the state it leaves.
approval_edge(state) == workflow_edge("editor_in_chief")

----------------------------------------------------------------------------
(* Newsroom workflow: graph steps *)

\* A workflow state that is replaced by what a node returns.
NewsroomUpdate_replaces_state(update) ==
    newsroom' = update

NewsroomUpdate(update) ==
    newsroom' = ApplyUpdate(NewsroomStateKeys, {}, newsroom, update)

\* run_assignment_editor: the assignment editor graph has the single node
\* create_story_brief.
RunAssignmentEditor ==
    /\ stage = "assignment_editor"
    /\ started' = Append(started, "assignment_editor")
    /\ log' = Append(log, "create_story_brief")
    /\ \/ \E story_brief \in Briefs :
            /\ artifacts' = Saved(artifacts, story_brief.slug, "story_brief",
                                  story_brief)
            /\ NewsroomUpdate([story_brief |-> story_brief])
            /\ stage' = workflow_edge("assignment_editor")
       \/ /\ stage' = "FAILED"
          /\ UNCHANGED <<newsroom, artifacts>>
    /\ ExitOnRaise(stage')
    /\ UNCHANGED <<rpc, research, wpc, reporter, answers, extracted,
                   prompted, revisions, passes, console>>

\* run_research_assistant, up to the call of the research graph.
RunResearchAssistant ==
    /\ stage = "research_assistant"
    /\ rpc = "idle"
    /\ started' = Append(started, "research_assistant")
    /\ research' = [story_brief |-> newsroom["story_brief"],
                    max_turns |-> DEFAULT_MAX_TURNS,
                    current_turn |-> 0,
                    context |-> <<>>,
                    search_results |-> <<>>]
    /\ rpc' = research_edge("START")
    /\ UNCHANGED <<stage, newsroom, wpc, reporter, artifacts, log, answers,
                   extracted, prompted, revisions, passes, console,
                   exit_status>>

\* run_research_assistant, from the return of the research graph.
ReturnResearchAssistant ==
    /\ stage = "research_assistant"
    /\ rpc = "END"
    /\ NewsroomUpdate([research_package |-> research["research_package"]])
    /\ stage' = workflow_edge("research_assistant")
    /\ rpc' = "idle"
    /\ research' = EmptyDict
    /\ extracted' = <<>>
    /\ prompted' = <<>>
    /\ UNCHANGED <<revisions, passes>>
    /\ UNCHANGED <<wpc, reporter, artifacts, log, answers, started, console,
                   exit_status>>

\* A run_reporter that hands the approval notes to the reporter as feedback.
reporter_state_with_feedback(state) ==
    [story_brief |-> state["story_brief"],
     research_package |-> state["research_package"],
     feedback |-> Get(state, "approval", [notes |-> <<>>]).notes]

\* reporter_state of run_reporter: the input of the reporter graph.
reporter_state(state) ==
    [story_brief |-> state["story_brief"],
     research_package |-> state["research_package"]]

\* run_reporter, up to the call of the reporter graph.
RunReporter ==
    /\ stage = "reporter"
    /\ wpc = "idle"
    /\ started' = Append(started, "reporter")
    /\ reporter' = reporter_state(newsroom)
    /\ wpc' = reporter_edge("START")
    /\ UNCHANGED <<stage, newsroom, rpc, research, artifacts, log, answers,
                   extracted, prompted, revisions, passes, console,
                   exit_status>>

\* run_reporter, from the return of the reporter graph.
ReturnReporter ==
    /\ stage = "reporter"
    /\ wpc = "END"
    /\ NewsroomUpdate([draft_package |-> reporter["draft_package"]])
    /\ stage' = workflow_edge("reporter")
    /\ wpc' = "idle"
    /\ reporter' = EmptyDict
    /\ UNCHANGED <<rpc, research, artifacts, log, answers, started,
                   extracted, prompted, revisions, passes,
                   console, exit_status>>

\* run_copy_editor: the copy editor graph has the single node polish_article.
RunCopyEditor ==
    /\ stage = "copy_editor"
    /\ started' = Append(started, "copy_editor")
    /\ log' = Append(log, "polish_article")
    /\ \/ \E final_article \in FinalArticles :
            /\ artifacts' = Saved(artifacts, newsroom["story_brief"].slug,
                                  "final_article", final_article)
            /\ NewsroomUpdate([final_article |-> final_article])
            /\ stage' = workflow_edge("copy_editor")
       \/ /\ stage' = "FAILED"
          /\ UNCHANGED <<newsroom, artifacts>>
    /\ ExitOnRaise(stage')
    /\ UNCHANGED <<rpc, research, wpc, reporter, answers, extracted,
                   prompted, revisions, passes, console>>

\* run_graphic_desk: generate_image_prompt, then generate_hero_image; either
\* call may raise, and nothing in the graph or the workflow catches it.
RunGraphicDesk ==
    /\ stage = "graphic_desk"
    /\ started' = Append(started, "graphic_desk")
    /\ \/ /\ log' = log \o <<"generate_image_prompt", "generate_hero_image">>
          /\ artifacts' =
                Saved(Saved(artifacts, newsroom["story_brief"].slug,
                            "graphics/hero_prompt.txt", "prompt"),
                      newsroom["story_brief"].slug,
                      "graphics/hero_image.png", "image")
          /\ NewsroomUpdate([hero_image_path |-> "graphics/hero_image.png"])
          /\ stage' = workflow_edge("graphic_desk")
       \/ /\ log' = Append(log, "generate_image_prompt")
          /\ stage' = "FAILED"
          /\ UNCHANGED <<newsroom, artifacts>>
       \/ /\ log' = log \o <<"generate_image_prompt", "generate_hero_image">>
          /\ artifacts' = Saved(artifacts, newsroom["story_brief"].slug,
                                "graphics/hero_prompt.txt", "prompt")
          /\ stage' = "FAILED"
          /\ UNCHANGED newsroom
    /\ ExitOnRaise(stage')
    /\ UNCHANGED <<rpc, research, wpc, reporter, answers, extracted,
                   prompted, revisions, passes, console>>

\* run_editor_in_chief: the editor in chief graph has the single node
\* review_and_approve.
RunEditorInChief ==
    /\ stage = "editor_in_chief"
    /\ started' = Append(started, "editor_in_chief")
    /\ log' = Append(log, "review_and_approve")
    /\ \/ \E output \in ApprovalOutputs :
            /\ PublicationApproval_valid(output)
            /\ LET approval == PublicationApproval(output)
               IN  /\ artifacts' = Saved(artifacts, newsroom["story_brief"].slug,
                                         "publication_approval", approval)
                   /\ NewsroomUpdate([approval |-> approval])
            /\ stage' = approval_edge(newsroom')
       \/ /\ stage' = "FAILED"
          /\ UNCHANGED <<newsroom, artifacts>>
    /\ ExitOnRaise(stage')
    /\ UNCHANGED <<rpc, research, wpc, reporter, answers, extracted,
                   prompted, revisions, passes, console>>

----------------------------------------------------------------------------
(* The full pipeline: main() of main.py *)

\* FinalArticle.to_markdown for an article without subtitle and date.
to_markdown(final_article) ==
    <<"# ", final_article.title, "\n\n", final_article.article>>

\* The summary main() prints from the state workflow.invoke returned.
summary(result) ==
    Part(Has(result, "story_brief"),
         <<Line("Story Brief", result["story_brief"].slug)>>)
    \o Part(Has(result, "research_package"),
            <<Line("Research Package", Len(result["research_package"].results))>>)
    \o Part(Has(result, "draft_package"),
            <<Line("Draft Package", Len(result["draft_package"].sources))>>)
    \o Part(Has(result, "final_article"),
            <<Line("Final Article", result["final_article"].title)>>)
    \o Part(Has(result, "hero_image_path"),
            <<Line("Hero Image", result["hero_image_path"])>>)
    \o Part(Has(result, "approval"),
            <<Line("Status", IF result["approval"].approved
                             THEN "APPROVED" ELSE "NOT APPROVED")>>
            \o [i \in DOMAIN result["approval"].notes |->
                  Line("Note", result["approval"].notes[i])])

\* A main() that prints the article whatever the approval says.
published_ignores_approval(result) ==
    Part(Has(result, "final_article") /\ Has(result, "approval"),
         <<Line("FINAL ARTICLE", to_markdown(result["final_article"]))>>)

\* The article main() prints after the summary: only an approved one.
published(result) ==
    Part(Has(result, "final_article") /\ Has(result, "approval")
            /\ result["approval"].approved,
         <<Line("FINAL ARTICLE", to_markdown(result["final_article"]))>>)

\* main() after workflow.invoke has returned.
MainReport ==
    /\ stage = "END"
    /\ exit_status = "running"
    /\ console' = console \o summary(newsroom) \o published(newsroom)
    /\ exit_status' = "0"
    /\ UNCHANGED <<stage, newsroom, rpc, research, wpc, reporter, artifacts,
                   log, answers, started, extracted, prompted, revisions,
                   passes>>

Init ==
    /\ stage = workflow_edge("START")
    /\ newsroom = [article_idea |-> "idea"]
    /\ rpc = "idle"
    /\ research = EmptyDict
    /\ wpc = "idle"
    /\ reporter = EmptyDict
    /\ artifacts = EmptyDict
    /\ log = <<>>
    /\ answers = <<>>
    /\ started = <<>>
    /\ extracted = <<>>
    /\ prompted = <<>>
    /\ revisions = 0
    /\ passes = <<>>
    /\ console = <<>>
    /\ exit_status = "running"

\* The steps of workflow.invoke.
WorkflowNext ==
    \/ RunAssignmentEditor
    \/ RunResearchAssistant
    \/ GenerateQueries
    \/ SearchWeb
    \/ CurateUrls
    \/ ExtractAnalyze
    \/ FinalizeResearch
    \/ ReturnResearchAssistant
    \/ RunReporter
    \/ WriteDraft
    \/ ReviewFacts
    \/ ReviseFacts
    \/ ReviewStyle
    \/ ReviseStyle
    \/ FinalizeDraft
    \/ ReturnReporter
    \/ RunCopyEditor
    \/ RunGraphicDesk
    \/ RunEditorInChief

Next ==
    \/ WorkflowNext
    \/ MainReport

Spec == Init /\ [][Next]_vars

\* workflow.invoke runs the graph until no node is left to run, and main
\* then prints its report: a step that can be taken is taken.
FairSpec == Spec /\ WF_vars(Next)

----------------------------------------------------------------------------
(* Properties *)

Count(seq, x) == Cardinality({i \in DOMAIN seq : seq[i] = x})

IsPrefix(a, b) == Len(a) <= Len(b) /\ a = SubSeq(b, 1, Len(a))

\* Turns performed so far: one per execution of generate_queries.
Turns == Count(log, "generate_queries")

NeverSufficient == \A i \in DOMAIN answers : answers[i] = FALSE

ResearchRunning == rpc \notin {"main", "idle", "END", "FAILED"}

\* C1: with a max-turn budget B >= 0 the research loop performs at most B
\* turns.
C1_AtMostBudgetTurns ==
    (Has(research, "max_turns") /\ research["max_turns"] >= 0)
        => Turns <= research["max_turns"]

\* C2: after a turn's evaluation the loop starts another turn only if the
\* evaluation did not signal sufficiency and current_turn < max_turns; in
\* every other case the next step is finalize.
C2_LoopDecision ==
    [][(rpc = "extract_analyze" /\ rpc' # "FAILED")
         => /\ Len(answers') = Len(answers) + 1
            /\ IF ~answers'[Len(answers')]
                  /\ research'["current_turn"] < research'["max_turns"]
               THEN rpc' = "generate_queries"
               ELSE rpc' = "finalize_research"]_vars

C2_Witness ==
    /\ rpc = "generate_queries"
    /\ answers # <<>>
    /\ ~answers[Len(answers)]
    /\ research["current_turn"] < research["max_turns"]

C4_NoDuplicateSources ==
    rpc = "END"
        => LET results == research["research_package"].results
           IN  \A i, j \in DOMAIN results :
                    i # j => results[i].source # results[j].source

C4_Witness ==
    /\ rpc = "END"
    /\ \E i, j \in DOMAIN research["search_results"] :
          /\ i < j
          /\ research["search_results"][i].source
                = research["search_results"][j].source

\* The accumulated items of one source, in accumulation order.
Occurrences(raw, source) == SelectSeq(raw, LAMBDA r : r.source = source)

\* The contents of a non-empty item list joined by the separator.
RECURSIVE Joined(_)
Joined(items) ==
    IF Len(items) = 1 THEN items[1].content
    ELSE items[1].content \o <<SEP>> \o Joined(Tail(items))

\* C5: for a source that occurs more than once in the accumulated evidence,
\* the one finalized item has the contents of all its occurrences joined by
\* the separator in accumulation order, and the relevance note of the first.
C5_MergedContent ==
    rpc = "END"
        => LET raw == research["search_results"]
               results == research["research_package"].results
           IN  \A source \in {raw[i].source : i \in DOMAIN raw} :
                  Len(Occurrences(raw, source)) > 1
                    => /\ Len(Occurrences(results, source)) = 1
                       /\ Occurrences(results, source)[1].content
                             = Joined(Occurrences(raw, source))
                       /\ Occurrences(results, source)[1].relevance
                             = Occurrences(raw, source)[1].relevance

C5_Witness ==
    /\ rpc = "END"
    /\ \E source \in Sources :
          LET occ == Occurrences(research["search_results"], source)
          IN  /\ Len(occ) = 3
              /\ occ[1].content # occ[2].content
              /\ occ[1].relevance # occ[2].relevance

\* C6: a revision step whose review has an empty issue list leaves the draft
\* package as it was: same body text, source list and source narrative.
C6_EmptyReviewNoOp ==
    [][/\ (wpc = "revise_facts" /\ reporter["fact_review"].issues = <<>>)
            => /\ wpc' = "review_style"
               /\ reporter'["draft_package"] = reporter["draft_package"]
       /\ (wpc = "revise_style" /\ reporter["style_review"].issues = <<>>)
            => /\ wpc' = "finalize_draft"
               /\ reporter'["draft_package"] = reporter["draft_package"]]_vars

C6_Witness ==
    /\ wpc = "finalize_draft"
    /\ reporter["fact_review"].issues = <<>>
    /\ reporter["style_review"].issues = <<>>

\* The first draft of the run, as write_draft saved it.
InitialDraft == artifacts[<<reporter["story_brief"].slug,
                           "reporter/1_initial_draft.md">>]

\* C7: the source list and the source narrative of the draft package are
\* those of the first draft after every revision pass and in the final draft.
C7_SourcesCarriedOver ==
    Has(reporter, "draft_package")
        => /\ reporter["draft_package"].sources = InitialDraft.sources
           /\ reporter["draft_package"].sources_section
                 = InitialDraft.sources_section
           /\ wpc = "END"
                 => artifacts[<<reporter["story_brief"].slug, "draft_package">>]
                       = reporter["draft_package"]

C7_Witness ==
    /\ wpc = "END"
    /\ reporter["fact_review"].issues # <<>>
    /\ reporter["style_review"].issues # <<>>
    /\ reporter["draft_package"].full_draft # InitialDraft.full_draft
    /\ reporter["draft_package"].sources = <<"u1", "u2">>

ReporterOrder ==
    <<"write_draft", "review_facts", "revise_facts", "review_style",
      "revise_style", "finalize_draft">>

\* C8: the reporter's steps run in the order write_draft, review_facts,
\* revise_facts, review_style, revise_style, finalize_draft, and a run that
\* ends has run each exactly once.
C8_ReporterSinglePass ==
    /\ IsPrefix(log, ReporterOrder)
    /\ wpc = "END" => log = ReporterOrder
    /\ wpc \notin {"main", "idle", "END", "FAILED"}
          => wpc = ReporterOrder[Len(log) + 1]

C8_Witness ==
    /\ wpc = "END"
    /\ reporter["style_review"].issues # <<>>
    /\ reporter["fact_review"].issues # <<>>

WorkflowOrder ==
    <<"assignment_editor", "research_assistant", "reporter", "copy_editor",
      "graphic_desk", "editor_in_chief">>

\* The NewsroomState field each workflow node writes.
OutputOf ==
    [n \in {"assignment_editor", "research_assistant", "reporter",
            "copy_editor", "graphic_desk", "editor_in_chief"} |->
        CASE n = "assignment_editor" -> "story_brief"
          [] n = "research_assistant" -> "research_package"
          [] n = "reporter" -> "draft_package"
          [] n = "copy_editor" -> "final_article"
          [] n = "graphic_desk" -> "hero_image_path"
          [] n = "editor_in_chief" -> "approval"]

\* A workflow node that has started and not yet returned.
InsideStage ==
    /\ started # <<>>
    /\ stage = started[Len(started)]

\* C9: the workflow nodes start in the order planning, research, drafting,
\* polishing, image generation, approval, and a node is the next to start
\* only when every node before it has returned and written its output.
C9_StagesInOrder ==
    /\ IsPrefix(started, WorkflowOrder)
    /\ stage \notin {"END", "FAILED"}
          => \/ InsideStage
             \/ /\ Len(started) < Len(WorkflowOrder)
                /\ stage = WorkflowOrder[Len(started) + 1]
                /\ rpc = "idle" /\ wpc = "idle"
                /\ \A i \in 1 .. Len(started) :
                      Has(newsroom, OutputOf[started[i]])
    /\ stage = "END"
          => /\ started = WorkflowOrder
             /\ \A i \in 1 .. Len(started) : Has(newsroom, OutputOf[started[i]])

C9_Witness ==
    /\ stage = "END"
    /\ started = WorkflowOrder

Rejected == Has(newsroom, "approval") /\ ~newsroom["approval"].approved

Range(seq) == {seq[i] : i \in DOMAIN seq}

Reads ==
    [n \in {"assignment_editor", "research_assistant", "reporter",
            "copy_editor", "graphic_desk", "editor_in_chief"} |->
        CASE n = "assignment_editor" -> {"article_idea"}
          [] n = "research_assistant" -> {"story_brief"}
          [] n = "reporter" -> {"story_brief", "research_package"}
          [] n = "copy_editor" -> {"story_brief", "draft_package"}
          [] n = "graphic_desk" -> {"story_brief", "final_article"}
          [] n = "editor_in_chief" -> {"story_brief", "final_article"}]

\* C13: when a workflow node is about to run or is running, every field it
\* reads is in the state, and every such field other than the input idea is
\* the output of a node that started earlier in the run; the copy of the
\* brief inside a running subgraph is the one in the workflow state.
C13_InputsProduced ==
    /\ stage \in DOMAIN Reads
          => \A f \in Reads[stage] :
                /\ Has(newsroom, f)
                /\ f # "article_idea"
                      => \E i \in DOMAIN started :
                            /\ started[i] # stage
                            /\ OutputOf[started[i]] = f
    /\ (stage = "research_assistant" /\ rpc # "idle")
          => research["story_brief"] = newsroom["story_brief"]
    /\ (stage = "reporter" /\ wpc # "idle")
          => /\ reporter["story_brief"] = newsroom["story_brief"]
             /\ reporter["research_package"] = newsroom["research_package"]

C13_Witness ==
    /\ stage = "editor_in_chief"
    /\ Len(started) = 5
    /\ Has(newsroom, "final_article")
    /\ Has(newsroom, "story_brief")

\* C14: the story brief enters the workflow state in a step of the planning
\* stage, which runs once; from then on every step leaves it as it is, the
\* brief handed to the research and reporter graphs stays equal to it, and
\* so does the saved brief.
C14_BriefWrittenOnce ==
    [][/\ (~Has(newsroom, "story_brief") /\ Has(newsroom', "story_brief"))
            => stage = "assignment_editor"
       /\ Has(newsroom, "story_brief")
            => /\ Has(newsroom', "story_brief")
               /\ newsroom'["story_brief"] = newsroom["story_brief"]
               /\ Has(research', "story_brief")
                     => research'["story_brief"] = newsroom["story_brief"]
               /\ Has(reporter', "story_brief")
                     => reporter'["story_brief"] = newsroom["story_brief"]
               /\ artifacts'[<<newsroom["story_brief"].slug, "story_brief">>]
                     = newsroom["story_brief"]
               /\ Count(log', "create_story_brief") = 1]_vars

C14_Witness ==
    /\ stage = "END"
    /\ Has(newsroom, "approval")
    /\ newsroom["story_brief"].article_type = "long"
    /\ Count(log, "create_story_brief") = 1

\* What a search gathers when exactly the queries in failing fail.
Found(queries, failing) ==
    LET ok == SelectSeq(queries, LAMBDA q : q \notin failing)
    IN  [i \in DOMAIN ok |-> [url |-> SearchIndex[ok[i]]]]

\* What an extraction gathers when exactly the URLs in failing fail.
Pages(urls, failing) ==
    LET ok == SelectSeq(urls, LAMBDA u : u \notin failing)
    IN  [i \in DOMAIN ok |-> [url |-> ok[i], raw_content |-> "page"]]

\* C15: whichever queries fail in a search step, the step ends with the
\* results of the other queries and the turn goes on to curation; whichever
\* URLs fail in an extraction step, the step can end with the pages of the
\* other URLs and the loop goes on; finalize always runs and leaves a
\* research package, which may be empty.
C15_ItemFailureSkipped ==
    /\ rpc = "search_web"
          => \A failing \in SUBSET Range(Get(research, "queries", <<>>)) :
                ENABLED (/\ SearchWeb
                         /\ research'["raw_search_results"]
                               = Found(research["queries"], failing)
                         /\ rpc' = "curate_urls"
                         /\ exit_status' = exit_status)
    /\ rpc = "extract_analyze"
          => \A failing \in SUBSET Range(Get(research, "urls_to_extract", <<>>)) :
                ENABLED (/\ extracted'
                               = Pages(research["urls_to_extract"], failing)
                         /\ ExtractAnalyze
                         /\ rpc' \in {"generate_queries", "finalize_research"}
                         /\ exit_status' = exit_status)
    /\ rpc = "finalize_research" => ENABLED FinalizeResearch
    /\ rpc = "END" => Has(research, "research_package")

C15_Witness ==
    /\ rpc = "finalize_research"
    /\ Len(research["queries"]) = 2
    /\ Len(research["raw_search_results"]) = 1
    /\ Len(research["urls_to_extract"]) = 2
    /\ Len(extracted) = 1
    /\ research["search_results"] = <<>>

\* C16: a failure inside a stage, a failed research or reporter node
\* included, fails the pipeline run: the failing stage has written no
\* output, no step of any stage follows, the drafting stage has started at
\* most once, main() prints no summary and the process ends with status 1.
C16_FailurePropagates ==
    /\ (rpc = "FAILED" \/ wpc = "FAILED") => stage = "FAILED"
    /\ stage = "FAILED"
          => /\ ~ENABLED Next
             /\ started # <<>>
             /\ IsPrefix(started, WorkflowOrder)
             /\ ~Has(newsroom, OutputOf[started[Len(started)]])
             /\ Count(started, "reporter") <= 1
             /\ console = <<>>
             /\ exit_status = "1"

C16_Witness ==
    /\ stage = "FAILED"
    /\ wpc = "FAILED"
    /\ log[Len(log)] = "revise_facts"
    /\ started = <<"assignment_editor", "research_assistant", "reporter">>

\* C17 as stated: when the research assistant is started for a slug with no
\* saved story brief, main() returns without running the graph, its last
\* line names the missing brief, and the exit status is not zero.
C17_MissingBriefExitsNonZero ==
    (stage = "standalone" /\ rpc = "idle")
        => /\ log = <<>>
           /\ research = EmptyDict
           /\ console[Len(console)].text = "Story Brief not found for slug"
           /\ exit_status \notin {"running", "0"}

\* main() has printed a line with this text and value.
Printed(text, arg) ==
    \E i \in DOMAIN console : console[i].text = text /\ console[i].arg = arg

PrintedText(text) == \E i \in DOMAIN console : console[i].text = text

\* C18: when main() has reported a completed run, the final article has been
\* printed as FINAL ARTICLE exactly if the approval decision approves; for a
\* rejecting decision the report shows the status NOT APPROVED and every
\* note of the decision, and no FINAL ARTICLE block.
C18_PublishedOnlyIfApproved ==
    /\ PrintedText("FINAL ARTICLE")
          => /\ Has(newsroom, "approval")
             /\ newsroom["approval"].approved
    /\ exit_status = "0"
          => /\ Has(newsroom, "approval")
             /\ newsroom["approval"].approved
                   => Printed("FINAL ARTICLE",
                              to_markdown(newsroom["final_article"]))
             /\ Rejected
                   => /\ Printed("Status", "NOT APPROVED")
                      /\ \A note \in Range(newsroom["approval"].notes) :
                            Printed("Note", note)
                      /\ ~PrintedText("FINAL ARTICLE")

C18_Witness ==
    /\ exit_status = "0"
    /\ Rejected
    /\ Printed("Note", "missing attribution")
    /\ Printed("Final Article", newsroom["final_article"].title)
    /\ ~PrintedText("FINAL ARTICLE")

\* generate_hero_image has run and its image call has failed: the node was
\* entered and no image file was written.
ImageCallFailed ==
    /\ Count(log, "generate_hero_image") = 1
    /\ ~FileExists(artifacts, newsroom["story_brief"].slug,
                   "graphics/hero_image.png")

\* C19 as stated: after a failed image-generation call the run goes on to
\* the approval stage with no hero image and does not fail.
C19_ImageFailureRecovered ==
    ImageCallFailed
        => /\ stage \in {"editor_in_chief", "END"}
           /\ ~Has(newsroom, "hero_image_path")
           /\ exit_status # "1"

\* C20 as stated: the story brief in the workflow state, and the one the
\* research graph is started with, has between 3 and 5 key questions.
C20_KeyQuestionsInRange ==
    /\ Has(newsroom, "story_brief")
          => Len(newsroom["story_brief"].key_questions) \in 3 .. 5
    /\ Has(research, "story_brief")
          => Len(research["story_brief"].key_questions) \in 3 .. 5

\* The section headings of a draft body, in order.
Headings(full_draft) == SelectSeq(full_draft, LAMBDA l : l \in HeadingLines)

\* C21 as stated: a revision pass that runs on a non-empty issue list leaves
\* the sequence of section headings of the body as it was before the pass.
C21_HeadingsPreserved ==
    [][/\ (wpc = "revise_facts" /\ reporter["fact_review"].issues # <<>>
             /\ wpc' # "FAILED")
            => Headings(reporter'["draft_package"].full_draft)
                  = Headings(reporter["draft_package"].full_draft)
       /\ (wpc = "revise_style" /\ reporter["style_review"].issues # <<>>
             /\ wpc' # "FAILED")
            => Headings(reporter'["draft_package"].full_draft)
                  = Headings(reporter["draft_package"].full_draft)]_vars

C23_TurnCounter ==
    [][/\ (rpc \in {"idle", "main"} /\ rpc' = "generate_queries")
            => research'["current_turn"] = 0
       /\ (rpc = "generate_queries" /\ rpc' # "FAILED")
            => /\ research'["current_turn"] = research["current_turn"] + 1
               /\ research'["current_turn"] = Count(log', "generate_queries")
       /\ rpc \in {"search_web", "curate_urls", "extract_analyze",
                    "finalize_research"}
            => research'["current_turn"] = research["current_turn"]]_vars

C23_Witness ==
    /\ stage = "research_assistant"
    /\ rpc = "finalize_research"
    /\ research["current_turn"] = 3
    /\ Len(answers) = 3

\* C24: a step of the research loop whose model call raises leaves
\* current_turn, search_results and context exactly as the step found them.
C24_NoPartialUpdate ==
    [][rpc' = "FAILED"
          => \A k \in {"current_turn", "search_results", "context"} :
                /\ Has(research', k) <=> Has(research, k)
                /\ Has(research, k) => research'[k] = research[k]]_vars

C24_Witness ==
    /\ rpc = "FAILED"
    /\ log[Len(log)] = "generate_queries"
    /\ Turns = 2
    /\ research["current_turn"] = 1
    /\ Len(research["search_results"]) = 2
    /\ Len(research["context"]) = 1

\* C25: the context put into the prompt of the query generation of turn k
\* holds the findings of turns max(1, k - 5) .. k - 1, one message per turn
\* in turn order, min(5, k - 1) of them; an evaluation that returns appends
\* exactly one message, that of its own turn, to the history.
C25_RollingContext ==
    [][/\ rpc = "generate_queries"
            => LET k == Get(research, "current_turn", 0) + 1
                   n == IF k - 1 < 5 THEN k - 1 ELSE 5
               IN  /\ Len(prompted') = n
                   /\ \A i \in 1 .. n : prompted'[i].turn = k - 1 - n + i
       /\ (rpc = "extract_analyze" /\ rpc' # "FAILED")
            => /\ Len(research'["context"]) = Len(research["context"]) + 1
               /\ IsPrefix(research["context"], research'["context"])
               /\ research'["context"][Len(research'["context"])].turn
                     = research["current_turn"]]_vars

C25_Witness ==
    /\ rpc = "END"
    /\ research["current_turn"] = 7
    /\ Len(research["context"]) = 7
    /\ Len(prompted) = 5
    /\ prompted[1].turn = 2
    /\ prompted[5].turn = 6

\* C26 as stated: the URLs handed to extraction are URLs of the turn's raw
\* search results, and there are at most 3 of them.
C26_CuratedFromSearch ==
    rpc = "extract_analyze"
       => /\ Range(research["urls_to_extract"])
               \subseteq {r.url : r \in Range(research["raw_search_results"])}
          /\ Cardinality(Range(research["urls_to_extract"])) <= 3

\* C27: when curation starts, the search node has just returned and the raw
\* results are what the search of all of the turn's queries gave; they do
\* not change while curation and evaluation run, and the evaluation that
\* answers has the extraction of all curated URLs before it.
C27_PhasesInOrder ==
    [][/\ rpc = "curate_urls"
            => /\ log[Len(log)] = "search_web"
               /\ Get(research, "raw_search_results", <<>>)
                     \in perform_search(Get(research, "queries", <<>>))
       /\ rpc \in {"curate_urls", "extract_analyze"}
            => /\ Has(research', "raw_search_results")
               /\ research'["raw_search_results"]
                     = research["raw_search_results"]
       /\ (rpc = "extract_analyze" /\ answers' # answers)
            => /\ log[Len(log)] = "curate_urls"
               /\ extracted'
                     \in perform_extract(research["urls_to_extract"])]_vars

C27_Witness ==
    /\ rpc \in {"generate_queries", "finalize_research"}
    /\ research["current_turn"] = 2
    /\ Len(answers) = 2
    /\ Len(research["queries"]) = 2
    /\ Len(research["raw_search_results"]) = 2
    /\ Len(research["urls_to_extract"]) = 2
    /\ Len(extracted) = 2

Invocations(review) == IF review.issues = <<>> THEN 0 ELSE 1

\* C28: a revision pass calls the revision model once when its review lists
\* an issue and not at all when the list is empty, so a reporter run makes
\* at most two such calls.
C28_RevisionInvocations ==
    /\ revisions <= 2
    /\ wpc \in {"write_draft", "review_facts", "revise_facts"}
          => revisions = 0
    /\ wpc \in {"review_style", "revise_style"}
          => revisions = Invocations(reporter["fact_review"])
    /\ wpc \in {"finalize_draft", "END"}
          => revisions = Invocations(reporter["fact_review"])
                           + Invocations(reporter["style_review"])
    /\ (wpc = "FAILED" /\ log # <<>>
          /\ log[Len(log)] \in {"revise_facts", "revise_style"})
          => revisions >= 1

C28_Witness ==
    /\ wpc = "END"
    /\ reporter["fact_review"].issues = <<>>
    /\ reporter["style_review"].issues # <<>>
    /\ revisions = 1

C30_RunsOnceAndEnds ==
    /\ <>(stage \in {"END", "FAILED"})
    /\ [][started' # started
            => \E n \in Range(WorkflowOrder) \ Range(started) :
                  started' = Append(started, n)]_vars
    /\ [][(stage = "editor_in_chief" /\ stage' # stage)
            => \/ stage' = "FAILED"
               \/ stage' = "END" /\ Has(newsroom', "approval")]_vars
    /\ [](stage = "END"
            => /\ started = WorkflowOrder
               /\ \A n \in Range(WorkflowOrder) : Count(started, n) = 1
               /\ ~ENABLED WorkflowNext)

C30_Witness ==
    /\ stage = "END"
    /\ exit_status = "0"
    /\ newsroom["approval"].approved
    /\ Len(started) = 6
    /\ revisions = 2

LoopNodes ==
    {"generate_queries", "search_web", "curate_urls", "extract_analyze",
     "finalize_research"}

\* C31: every step of the research loop, finalize included, leaves the
\* accumulated evidence as a prefix of its new value; an evaluation that
\* returns puts its new items behind it, and no other step changes it.
C31_EvidenceAppendOnly ==
    [][(rpc \in LoopNodes)
          => /\ IsPrefix(research["search_results"],
                         research'["search_results"])
             /\ (rpc = "extract_analyze" /\ answers' # answers)
                   => \E items \in NewItemBatches :
                         research'["search_results"]
                            = research["search_results"] \o items
             /\ (rpc # "extract_analyze" \/ answers' = answers)
                   => research'["search_results"]
                         = research["search_results"]]_vars

C31_Witness ==
    /\ rpc = "END"
    /\ Turns = 3
    /\ Len(research["search_results"]) = 3
    /\ research["search_results"][1].source = "u2"
    /\ research["search_results"][3].source = "u1"

\* The position at which a source first occurs in an item list.
FirstIndex(raw, source) ==
    CHOOSE i \in DOMAIN raw :
        /\ raw[i].source = source
        /\ \A j \in 1 .. i - 1 : raw[j].source # source

\* C32: the finalized package has one item for each source identifier of
\* the accumulated evidence and none for any other, and its items stand in
\* the order in which their sources first occurred in the evidence.
C32_NoSourceLost ==
    rpc = "END"
       => LET raw == research["search_results"]
              results == research["research_package"].results
          IN  /\ {results[i].source : i \in DOMAIN results}
                    = {raw[i].source : i \in DOMAIN raw}
              /\ Len(results) = Cardinality({raw[i].source : i \in DOMAIN raw})
              /\ \A a, b \in DOMAIN results :
                    a < b => FirstIndex(raw, results[a].source)
                               < FirstIndex(raw, results[b].source)

C32_Witness ==
    /\ rpc = "END"
    /\ Len(research["search_results"]) = 3
    /\ research["search_results"][1].source = "u2"
    /\ research["search_results"][2].source = "u1"
    /\ research["search_results"][3].source = "u1"
    /\ Len(research["research_package"].results) = 2
    /\ research["research_package"].results[1].source = "u2"

\* C33: the merge of finalize, applied to the item list of a finalized
\* package, gives that list back: same items, contents and order.
C33_MergeIdempotent ==
    rpc = "END"
       => merge_from(<<>>, research["research_package"].results)
             = research["research_package"].results

C33_Witness ==
    /\ rpc = "END"
    /\ Len(research["search_results"]) = 3
    /\ Len(research["research_package"].results) = 2
    /\ research["research_package"].results[2].content = <<"a", SEP, "b">>

\* C34: queries, raw results and curated URLs are each turn's own: a query
\* generation and a search put their result in place of the old one, a
\* curation that finds no raw results goes on to extraction with an empty
\* URL list and cannot fail on a model call, and the extraction that
\* follows fetches nothing.
C34_WorkingFieldsReplaced ==
    [][/\ (rpc = "generate_queries" /\ rpc' # "FAILED")
            => research'["queries"] \in QueryBatches
       /\ rpc = "search_web"
            => research'["raw_search_results"]
                  \in perform_search(research["queries"])
       /\ (rpc = "curate_urls" /\ research["raw_search_results"] = <<>>)
            => /\ rpc' = "extract_analyze"
               /\ research'["urls_to_extract"] = <<>>
       /\ (rpc = "extract_analyze" /\ research["raw_search_results"] = <<>>)
            => extracted' = <<>>]_vars

C34_Witness ==
    /\ rpc = "finalize_research"
    /\ research["current_turn"] = 2
    /\ research["raw_search_results"] = <<>>
    /\ research["urls_to_extract"] = <<>>
    /\ extracted = <<>>
    /\ Len(research["search_results"]) = 2
    /\ answers = <<FALSE, TRUE>>

\* The body most recently written before model call i of the reporter.
LastWrote(i) ==
    LET js == {j \in 1 .. i - 1 : passes[j].wrote # <<>>}
    IN  IF js = {} THEN <<>>
        ELSE passes[CHOOSE j \in js : \A k \in js : k <= j].wrote

\* C35: every review and revision call of the reporter is given the body
\* most recently written (by the latest revision that answered, else by
\* write_draft), the draft in the state is that body, and the package that
\* finalize stores under the slug is the draft in the state.
C35_ReadsLatestDraft ==
    /\ \A i \in DOMAIN passes :
          passes[i].node # "write_draft" => passes[i].read = LastWrote(i)
    /\ Has(reporter, "draft_package")
          => reporter["draft_package"].full_draft = LastWrote(Len(passes) + 1)
    /\ wpc = "END"
          => artifacts[<<reporter["story_brief"].slug, "draft_package">>]
                = reporter["draft_package"]

C35_Witness ==
    /\ wpc = "END"
    /\ Len(passes) = 5
    /\ passes[3].node = "revise_facts"
    /\ passes[4].read = passes[3].wrote
    /\ passes[5].node = "revise_style"
    /\ passes[5].wrote # passes[3].wrote
    /\ passes[3].wrote # passes[1].wrote
    /\ reporter["draft_package"].full_draft = passes[5].wrote

C37_OwnFieldOnly ==
    [][IF stage \in Range(WorkflowOrder)
       THEN /\ \A k \in DOMAIN newsroom \ {OutputOf[stage]} :
                  Has(newsroom', k) /\ newsroom'[k] = newsroom[k]
            /\ DOMAIN newsroom' \subseteq DOMAIN newsroom \cup {OutputOf[stage]}
            /\ DOMAIN newsroom'
                  \subseteq {"article_idea"} \cup Range(OutputOf)
       ELSE newsroom' = newsroom]_vars

C37_Witness ==
    /\ stage = "END"
    /\ DOMAIN newsroom = {"article_idea"} \cup Range(OutputOf)
    /\ newsroom["article_idea"] = "idea"
    /\ newsroom["hero_image_path"] = "graphics/hero_image.png"

\* The file under artifacts/<slug>/ in which a stage stores its output.
ArtifactOf ==
    [n \in {"assignment_editor", "research_assistant", "reporter",
            "copy_editor", "editor_in_chief"} |->
        CASE n = "assignment_editor" -> "story_brief"
          [] n = "research_assistant" -> "research_package"
          [] n = "reporter" -> "draft_package"
          [] n = "copy_editor" -> "final_article"
          [] n = "editor_in_chief" -> "publication_approval"]

Stored(n) ==
    /\ Has(newsroom, "story_brief")
    /\ Has(newsroom, OutputOf[n])
    /\ FileExists(artifacts, newsroom["story_brief"].slug, ArtifactOf[n])
    /\ artifacts[<<newsroom["story_brief"].slug, ArtifactOf[n]>>]
          = newsroom[OutputOf[n]]

\* C38: when a stage has started, also when it then fails, the output of
\* every stage before it is stored under the slug of the brief, as the
\* value the workflow state holds; a run that has reached END has the story
\* brief, research package, draft package, final article and approval
\* stored.
C38_StoredBeforeNext ==
    /\ \A i \in DOMAIN started :
          \A j \in 1 .. i - 1 :
             started[j] \in DOMAIN ArtifactOf => Stored(started[j])
    /\ stage = "END" => \A n \in DOMAIN ArtifactOf : Stored(n)

C38_Witness ==
    /\ stage = "FAILED"
    /\ started = WorkflowOrder
    /\ \A n \in DOMAIN ArtifactOf \ {"editor_in_chief"} : Stored(n)
    /\ ~FileExists(artifacts, newsroom["story_brief"].slug,
                   "publication_approval")

====
